---------------------------- MODULE Spec2Model ----------------------------
(***************************************************************************)
(* A model of the wait-around ring buffer (src/src/lib.rs): a single       *)
(* producer / single consumer byte pipe with a doubled-modulus cursor      *)
(* pair and one shared waker slot.  The pipe is driven the way the         *)
(* property test it_works drives it: in lockstep with the capacity-capped  *)
(* queue oracle tests::Model.                                              *)
(***************************************************************************)
EXTENDS Integers, Sequences, FiniteSets, TLC

(* ------------------------------ bounds -------------------------------- *)

\* Largest capacity handed to with_capacity.
MaxCapacity == 4

\* Longest caller buffer handed to poll_read / poll_write.
MaxLen == 5

\* Total number of bytes the writer may have accepted in one behaviour.
MaxTotal == 12


\* The reader task's and the writer task's wakers; None is Option::None.
ReaderWaker == "reader"
WriterWaker == "writer"
None == "none"
Wakers == {ReaderWaker, WriterWaker}

\* The two endpoints, each named by the waker of the task that polls it.
Endpoints == Wakers

Min(a, b) == IF a <= b THEN a ELSE b

(* ------------------------------ state --------------------------------- *)

VARIABLES
    data,        \* RingBuffer.data: the backing store, indexed from 0
    read_idx,    \* RingBuffer.read_idx
    write_idx,   \* RingBuffer.write_idx
    waker,       \* RingBuffer.waker: None or the parked waker
    model,       \* tests::Model.data: the oracle's queue
    accepted,    \* history: every byte a write has accepted, in order
    delivered,   \* history: every byte a read has delivered, in order
    waiting,     \* history: the endpoints whose last poll was pending and
                 \*          whose waker has not been signaled since
    last,        \* the last poll: its input, its pre-state and its outcome
    alive,       \* the endpoints (Reader, Writer) not yet dropped
    at_drop      \* history: the endpoints dropped while the counterpart
                 \*          was parked (its waker stored and not signaled)

vars == <<data, read_idx, write_idx, waker, model, accepted, delivered,
          waiting, last, alive, at_drop>>

\* data.len()
capacity == Cardinality(DOMAIN data)

\* The writer's payloads number the bytes of its stream (as u8 values): the
\* k-th byte it offers after a bytes were accepted is a + k.  The code never
\* inspects a byte, and with every byte in flight distinct a lost, repeated,
\* reordered or overwritten byte shows in the values read.
Payload(len) == [i \in 1..len |-> (Len(accepted) + i) % 256]

(* --------------------------- RingBuffer ------------------------------- *)

wrap_strict(idx) == IF idx > capacity THEN idx - capacity ELSE idx

\* fn wrap(&self, idx): one conditional subtraction of the capacity.
wrap(idx) == IF idx >= capacity THEN idx - capacity ELSE idx

read_single_modulus(amount) ==
    IF read_idx + amount >= capacity
    THEN read_idx + amount - capacity
    ELSE read_idx + amount

\* fn read(&mut self, amount): the read cursor after the advance.
read(amount) ==
    IF read_idx + amount >= 2 * capacity
    THEN read_idx + amount - 2 * capacity
    ELSE read_idx + amount

wrote_no_wrap(amount) == write_idx + amount

\* fn wrote(&mut self, amount): the write cursor after the advance.
wrote(amount) ==
    IF write_idx + amount >= 2 * capacity
    THEN write_idx + amount - 2 * capacity
    ELSE write_idx + amount

readable_to_end ==
    IF read_idx = write_idx
    THEN 0
    ELSE capacity - wrap(read_idx)

readable_full_as_empty ==
    IF wrap(read_idx) = wrap(write_idx)
    THEN 0
    ELSE IF wrap(read_idx) < wrap(write_idx)
         THEN wrap(write_idx) - wrap(read_idx)
         ELSE capacity - wrap(read_idx)

readable_raw_cursors ==
    IF read_idx = write_idx
    THEN 0
    ELSE IF read_idx < write_idx
         THEN write_idx - read_idx
         ELSE capacity - wrap(read_idx)

readable_no_empty_check ==
    IF wrap(read_idx) < wrap(write_idx)
    THEN wrap(write_idx) - wrap(read_idx)
    ELSE capacity - wrap(read_idx)

\* fn readable(&self): the contiguous span the reader may take.
readable ==
    IF read_idx = write_idx
    THEN 0
    ELSE IF wrap(read_idx) < wrap(write_idx)
         THEN wrap(write_idx) - wrap(read_idx)
         ELSE capacity - wrap(read_idx)

writeable_reserves_slot ==
    LET widx == IF write_idx < read_idx
                THEN write_idx + 2 * capacity
                ELSE write_idx
        remaining_space == capacity - 1 - (widx - read_idx)
        space_before_end == capacity - wrap(write_idx)
    IN  Min(remaining_space, space_before_end)

writeable_space_before_end_only == capacity - wrap(write_idx)

writeable_ignores_end ==
    capacity - ((IF write_idx < read_idx
                 THEN write_idx + 2 * capacity
                 ELSE write_idx) - read_idx)

\* fn writeable(&self): the contiguous span the writer may fill.
writeable ==
    LET widx == IF write_idx < read_idx
                THEN write_idx + 2 * capacity
                ELSE write_idx
        remaining_space == capacity - (widx - read_idx)
        space_before_end == capacity - wrap(write_idx)
    IN  Min(remaining_space, space_before_end)

park_keeps_first(cx) == IF waker = None THEN cx ELSE waker

\* fn park(&mut self, waker): the slot after the caller's waker is stored.
park(cx) == cx

wake_keeps_slot ==
    [slot |-> waker, signaled |-> IF waker = None THEN <<>> ELSE <<waker>>]

\* fn wake(&mut self): take() empties the slot; the token taken, if any,
\* is signaled.  signaled lists the wake() calls made on wakers, in order.
wake ==
    [slot |-> None, signaled |-> IF waker = None THEN <<>> ELSE <<waker>>]


(* ----------------------------- endpoints ------------------------------ *)

\* A poll's outcome: what it reports (ret, n, bytes), what it did (begin,
\* signaled, sees: the cursors <<read_idx, write_idx>> at the time wake()
\* ran) and the ring state it leaves.
Outcome(ret, n, begin, bytes, signaled, sees, d, r, w, slot) ==
    [ret |-> ret, n |-> n, begin |-> begin, bytes |-> bytes,
     signaled |-> signaled, sees |-> sees,
     data |-> d, read_idx |-> r, write_idx |-> w, waker |-> slot]

\* impl AsyncRead for Reader: fn poll_read(self, cx, buf), len = buf.len().
\* Slicing data[begin..end] past data.len() panics before anything changes.
poll_read(cx, len) ==
    LET n == Min(readable, len)
        begin == wrap(read_idx)
        end == begin + n
    IN  IF n > 0
        THEN IF end > capacity
             THEN Outcome("panic", 0, begin, <<>>, <<>>,
                          <<read_idx, write_idx>>,
                          data, read_idx, write_idx, waker)
             ELSE Outcome("ready", n, begin,
                          [i \in 1..n |-> data[begin + i - 1]],
                          wake.signaled, <<read(n), write_idx>>,
                          data, read(n), write_idx, wake.slot)
        ELSE Outcome("pending", 0, begin, <<>>, <<>>,
                     <<read_idx, write_idx>>,
                     data, read_idx, write_idx, park(cx))

\* impl AsyncWrite for Writer: fn poll_write(self, cx, buf).
poll_write(cx, buf) ==
    LET n == Min(writeable, Len(buf))
        begin == wrap(write_idx)
        end == begin + n
    IN  IF n > 0
        THEN IF end > capacity
             THEN Outcome("panic", 0, begin, <<>>, <<>>,
                          <<read_idx, write_idx>>,
                          data, read_idx, write_idx, waker)
             ELSE Outcome("ready", n, begin, SubSeq(buf, 1, n),
                          wake.signaled, <<read_idx, wrote(n)>>,
                          [i \in DOMAIN data |->
                              IF begin <= i /\ i < end
                              THEN buf[i - begin + 1]
                              ELSE data[i]],
                          read_idx, wrote(n), wake.slot)
        ELSE Outcome("pending", 0, begin, <<>>, <<>>,
                     <<read_idx, write_idx>>,
                     data, read_idx, write_idx, park(cx))

poll_close_wakes ==
    Outcome("ready", 0, 0, <<>>, wake.signaled, <<read_idx, write_idx>>,
            data, read_idx, write_idx, wake.slot)

\* fn poll_flush(self, _cx): Poll::Ready(Ok(())), nothing is touched.
poll_flush ==
    Outcome("ready", 0, 0, <<>>, <<>>, <<read_idx, write_idx>>,
            data, read_idx, write_idx, waker)

\* fn poll_close(self, _cx): Poll::Ready(Ok(())), nothing is touched.
poll_close ==
    Outcome("ready", 0, 0, <<>>, <<>>, <<read_idx, write_idx>>,
            data, read_idx, write_idx, waker)

drop_wakes ==
    Outcome("ready", 0, 0, <<>>, wake.signaled, <<read_idx, write_idx>>,
            data, read_idx, write_idx, wake.slot)

\* Dropping a Reader or a Writer: neither type (nor RingBuffer) implements
\* Drop, so the handle's Rc is released and the ring is left as it is.
drop ==
    Outcome("ready", 0, 0, <<>>, <<>>, <<read_idx, write_idx>>,
            data, read_idx, write_idx, waker)

(* ------------------------------ oracle -------------------------------- *)

\* tests::Model::write: extend, cut back to the capacity, report the growth.
Model_write(bytes) ==
    LET all == model \o bytes
        kept == SubSeq(all, 1, Min(capacity, Len(all)))
    IN  [data |-> kept, ret |-> Len(kept) - Len(model)]

\* tests::Model::read: drain the first min(n, len) bytes.
Model_read(n) ==
    LET k == Min(n, Len(model))
    IN  [data |-> SubSeq(model, k + 1, Len(model)), ret |-> SubSeq(model, 1, k)]

(* ------------------------------ actions ------------------------------- *)

\* The waiting set after endpoint `who` polled with outcome `res`: a pending
\* poll makes it wait, a ready one ends its wait, and a signal ends the
\* wait of the endpoint whose waker was signaled.
Waiting(who, res) ==
    [e \in Wakers |->
        IF e = who
        THEN res.ret = "pending" \/ (res.ret = "panic" /\ waiting[e])
        ELSE waiting[e] /\ \A i \in DOMAIN res.signaled : res.signaled[i] # e]

Last(op, len, res, oracle_n, oracle_bytes) ==
    [op |-> op, len |-> len, ret |-> res.ret, n |-> res.n,
     begin |-> res.begin, bytes |-> res.bytes,
     signaled |-> res.signaled, sees |-> res.sees,
     pre_read_idx |-> read_idx, pre_write_idx |-> write_idx,
     pre_waker |-> waker, pre_data |-> data,
     oracle_n |-> oracle_n, oracle_bytes |-> oracle_bytes]

\* RingBuffer::with_capacity(n) and Model::new(n), n in 0..MaxCapacity.
Init ==
    /\ data \in {[i \in 0..(n - 1) |-> 0] : n \in 0..MaxCapacity}
    /\ read_idx = 0
    /\ write_idx = 0
    /\ waker = None
    /\ model = <<>>
    /\ accepted = <<>>
    /\ delivered = <<>>
    /\ waiting = [e \in Wakers |-> FALSE]
    /\ last = [op |-> "new", len |-> 0, ret |-> "ready", n |-> 0,
               begin |-> 0, bytes |-> <<>>, signaled |-> <<>>,
               sees |-> <<0, 0>>,
               pre_read_idx |-> 0, pre_write_idx |-> 0, pre_waker |-> None,
               pre_data |-> data,
               oracle_n |-> 0, oracle_bytes |-> <<>>]
    /\ alive = Endpoints
    /\ at_drop = {}

\* Operation::Write(data) of it_works: one poll of tx.write(&data), then
\* model.write(&data[..written]).
Write(buf) ==
    LET res == poll_write(WriterWaker, buf)
        orc == Model_write(SubSeq(buf, 1, res.n))
    IN  /\ WriterWaker \in alive
        /\ Len(accepted) + res.n <= MaxTotal
        /\ data' = res.data
        /\ read_idx' = res.read_idx
        /\ write_idx' = res.write_idx
        /\ waker' = res.waker
        /\ model' = orc.data
        /\ accepted' = accepted \o res.bytes
        /\ delivered' = delivered
        /\ waiting' = Waiting(WriterWaker, res)
        /\ last' = Last("write", Len(buf), res, orc.ret, <<>>)
        /\ UNCHANGED <<alive, at_drop>>

\* Operation::Read(n) of it_works: one poll of rx.read(&mut buf[..n]), then
\* model.read(nread).
Read(len) ==
    LET res == poll_read(ReaderWaker, len)
        orc == Model_read(res.n)
    IN  /\ ReaderWaker \in alive
        /\ data' = res.data
        /\ read_idx' = res.read_idx
        /\ write_idx' = res.write_idx
        /\ waker' = res.waker
        /\ model' = orc.data
        /\ accepted' = accepted
        /\ delivered' = delivered \o res.bytes
        /\ waiting' = Waiting(ReaderWaker, res)
        /\ last' = Last("read", len, res, Len(orc.ret), orc.ret)
        /\ UNCHANGED <<alive, at_drop>>

\* A step of the writer or of an owner that is no read or write poll: the
\* ring becomes what `res` leaves, the oracle and the byte histories stay.
Apply(op, res) ==
    /\ data' = res.data
    /\ read_idx' = res.read_idx
    /\ write_idx' = res.write_idx
    /\ waker' = res.waker
    /\ waiting' =
          [e \in Wakers |->
              waiting[e] /\ \A i \in DOMAIN res.signaled : res.signaled[i] # e]
    /\ last' = Last(op, 0, res, 0, <<>>)
    /\ UNCHANGED <<model, accepted, delivered>>

\* One poll of tx.flush().
Flush ==
    /\ WriterWaker \in alive
    /\ Apply("flush", poll_flush)
    /\ UNCHANGED <<alive, at_drop>>

\* One poll of tx.close().
Close ==
    /\ WriterWaker \in alive
    /\ Apply("close", poll_close)
    /\ UNCHANGED <<alive, at_drop>>

\* drop(rx) / drop(tx): endpoint e goes out of scope.
Drop(e) ==
    /\ e \in alive
    /\ Apply("drop", drop)
    /\ alive' = alive \ {e}
    /\ at_drop' =
          IF \E c \in Endpoints \ {e} : waker = c /\ waiting[c]
          THEN at_drop \cup {e}
          ELSE at_drop

DropReader == Drop(ReaderWaker)

DropWriter == Drop(WriterWaker)

Next ==
    \/ \E len \in 0..MaxLen : Write(Payload(len))
    \/ \E len \in 0..MaxLen : Read(len)
    \/ Flush
    \/ Close
    \/ DropReader
    \/ DropWriter

Spec == Init /\ [][Next]_vars

\* The same pipe when every read and write poll is given a non-empty
\* caller buffer.
NextNonEmpty ==
    \/ \E len \in 1..MaxLen : Write(Payload(len))
    \/ \E len \in 1..MaxLen : Read(len)
    \/ Flush
    \/ Close
    \/ DropReader
    \/ DropWriter

SpecNonEmpty == Init /\ [][NextNonEmpty]_vars

(* ------------------------- claim vocabulary --------------------------- *)

\* x mod m, with the convention x mod 0 = x.
Mod(x, m) == IF m = 0 THEN x ELSE x % m

\* The buffered byte count read off the cursors, now and before the last poll.
Buffered == Mod(write_idx - read_idx, 2 * capacity)
PreBuffered == Mod(last.pre_write_idx - last.pre_read_idx, 2 * capacity)

\* The bytes accepted and not yet delivered.
InFlight == Len(accepted) - Len(delivered)

IsPoll == last.op \in {"read", "write"}
Progressed == IsPoll /\ last.ret = "ready" /\ last.n > 0
Caller == IF last.op = "read" THEN ReaderWaker ELSE WriterWaker

(* ------------------------------- claims ------------------------------- *)

\* C1: the bytes delivered by reads are, in order and value, the prefix of
\* the same length of the bytes accepted by writes.
C1_Conservation ==
    /\ Len(delivered) <= Len(accepted)
    /\ delivered = SubSeq(accepted, 1, Len(delivered))

\* A read that delivers bytes stored after the write cursor wrapped past
\* 2 * capacity, from a span that starts inside the backing store.
C1_Witness ==
    /\ capacity >= 2
    /\ last.op = "read" /\ last.ret = "ready"
    /\ Len(delivered) > 2 * capacity
    /\ last.begin > 0

\* C2: in lockstep with the oracle, a write that accepts n bytes (0 when
\* pending) has the oracle accept all n of that prefix, so n is at most the
\* capacity minus the bytes buffered; a read that delivers n bytes finds
\* them to be the oracle's first n bytes.
C2_Lockstep ==
    /\ last.op = "write" =>
          /\ last.oracle_n = last.n
          /\ last.n <= capacity - PreBuffered
    /\ last.op = "read" =>
          /\ last.oracle_n = last.n
          /\ last.oracle_bytes = last.bytes
    /\ Len(model) = Buffered

\* A write cut short by the wrap point while the oracle had room for more.
C2_Witness ==
    /\ last.op = "write" /\ last.ret = "ready"
    /\ last.n < last.len
    /\ last.n < capacity - PreBuffered
    /\ PreBuffered > 0

\* C3 (as claimed): a poll with a zero-length caller buffer is ready with 0
\* and leaves the waker slot as it was, in every ring state.  Stated for
\* capacity >= 1: on a pipe of capacity 0 every poll is pending (C10).
C3_ZeroLengthCompletes ==
    (capacity >= 1 /\ IsPoll /\ last.len = 0) =>
        /\ last.ret = "ready"
        /\ last.n = 0
        /\ waker = last.pre_waker

\* C4 (as claimed): an endpoint whose poll was pending has had its waker
\* signaled once the counterpart has transferred at least one byte.
C4_WakeupLiveness ==
    /\ (last.op = "write" /\ Progressed) => ~waiting[ReaderWaker]
    /\ (last.op = "read" /\ Progressed) => ~waiting[WriterWaker]

\* C5: a poll that transfers n > 0 bytes takes the token in the waker slot
\* (if any) and signals it exactly once, with the cursor already advanced,
\* and leaves the slot empty; a reader parked on an empty pipe is signaled
\* by the next successful write and then reads the first byte written, a
\* writer parked on a full pipe is signaled by the next successful read and
\* then has a byte accepted.
C5_WakeOnProgress ==
    Progressed =>
        /\ last.signaled =
              IF last.pre_waker = None THEN <<>> ELSE <<last.pre_waker>>
        /\ last.sees = <<read_idx, write_idx>>
        /\ waker = None
        /\ (/\ last.op = "write"
            /\ last.pre_waker = ReaderWaker
            /\ last.pre_read_idx = last.pre_write_idx) =>
              /\ last.signaled = <<ReaderWaker>>
              /\ poll_read(ReaderWaker, 1).ret = "ready"
              /\ poll_read(ReaderWaker, 1).bytes = <<last.bytes[1]>>
        /\ (/\ last.op = "read"
            /\ last.pre_waker = WriterWaker
            /\ PreBuffered = capacity) =>
              /\ last.signaled = <<WriterWaker>>
              /\ poll_write(WriterWaker, Payload(1)).ret = "ready"
              /\ poll_write(WriterWaker, Payload(1)).n = 1

\* A read that frees room in a full pipe on which the writer is parked.
C5_Witness ==
    /\ last.op = "read" /\ Progressed
    /\ last.pre_waker = WriterWaker
    /\ PreBuffered = capacity
    /\ last.signaled = <<WriterWaker>>

\* C6: a write polled on a full pipe and a read polled on an empty pipe
\* report pending, transfer nothing and store the caller's waker.
C6_Backpressure ==
    /\ (last.op = "write" /\ PreBuffered = capacity) =>
          /\ last.ret = "pending" /\ last.n = 0 /\ last.bytes = <<>>
          /\ write_idx = last.pre_write_idx /\ read_idx = last.pre_read_idx
          /\ waker = WriterWaker
    /\ (last.op = "read" /\ last.pre_read_idx = last.pre_write_idx) =>
          /\ last.ret = "pending" /\ last.n = 0 /\ last.bytes = <<>>
          /\ write_idx = last.pre_write_idx /\ read_idx = last.pre_read_idx
          /\ waker = ReaderWaker

\* A write with bytes to send polled on a full pipe of capacity >= 2 whose
\* cursors have both wrapped.
C6_Witness ==
    /\ capacity >= 2
    /\ last.op = "write" /\ last.len > 0
    /\ PreBuffered = capacity
    /\ last.pre_write_idx < last.pre_read_idx

\* C7: the buffered count (write_idx - read_idx) mod 2C is the number of
\* bytes accepted and not delivered and lies in 0..C; the pipe is empty
\* exactly when the cursors are equal and full exactly when the count is C.
C7_CapacityBound ==
    /\ Buffered = InFlight
    /\ 0 <= Buffered /\ Buffered <= capacity
    /\ (InFlight = 0) <=> (read_idx = write_idx)
    /\ (InFlight = capacity) <=> (Buffered = capacity)

\* A full pipe whose write cursor has wrapped past 2C and is below the
\* read cursor.
C7_Witness ==
    /\ capacity >= 2
    /\ InFlight = capacity
    /\ write_idx < read_idx
    /\ Progressed

\* C8 (as claimed): both cursors lie in [0, 2 * capacity), for every
\* capacity the constructor accepts.
C8_CursorBoundsAnyCapacity ==
    /\ 0 <= read_idx /\ read_idx < 2 * capacity
    /\ 0 <= write_idx /\ write_idx < 2 * capacity

\* C8 (amended): with capacity >= 1 both cursors lie in [0, 2 * capacity);
\* with capacity 0 that range is empty and both cursors are 0.
C8_CursorBounds ==
    /\ capacity >= 1 =>
          /\ 0 <= read_idx /\ read_idx < 2 * capacity
          /\ 0 <= write_idx /\ write_idx < 2 * capacity
    /\ capacity = 0 => (read_idx = 0 /\ write_idx = 0)

\* A write that takes the write cursor from 2C - 1 or below back round to
\* the start of the doubled modulus.
C8_Witness ==
    /\ capacity >= 1
    /\ last.op = "write" /\ Progressed
    /\ write_idx < last.pre_write_idx

\* C9: a write on a non-full ring accepts at most C - (write_idx mod C)
\* bytes, a read on a non-empty ring delivers at most C - (read_idx mod C)
\* bytes, and the span [begin, begin + n) a poll copies lies in [0, C).
C9_NonSplitting ==
    /\ (last.op = "write" /\ PreBuffered # capacity) =>
          last.n <= capacity - (last.pre_write_idx % capacity)
    /\ (last.op = "read" /\ last.pre_read_idx # last.pre_write_idx) =>
          last.n <= capacity - (last.pre_read_idx % capacity)
    /\ IsPoll =>
          /\ last.ret # "panic"
          /\ last.n > 0 => (0 <= last.begin /\ last.begin + last.n <= capacity)
          /\ last.op = "write" /\ last.n > 0 =>
                last.begin = last.pre_write_idx % capacity
          /\ last.op = "read" /\ last.n > 0 =>
                last.begin = last.pre_read_idx % capacity

\* A write that stops at the end of the backing store although the caller
\* offered more and the ring had more room.
C9_Witness ==
    /\ last.op = "write" /\ Progressed
    /\ last.begin > 0
    /\ last.begin + last.n = capacity
    /\ last.n < last.len
    /\ last.n < capacity - PreBuffered

\* C10: with capacity 0 the readable and writable counts are 0, every poll
\* is pending and parks the caller's waker, no byte is transferred and the
\* cursors never move.
C10_CapacityZero ==
    capacity = 0 =>
        /\ readable = 0 /\ writeable = 0
        /\ read_idx = 0 /\ write_idx = 0
        /\ accepted = <<>> /\ delivered = <<>>
        /\ IsPoll =>
              /\ last.ret = "pending" /\ last.n = 0
              /\ waker = Caller

\* On a pipe of capacity 0, a write with bytes to send parks over the
\* reader's parked waker.
C10_Witness ==
    /\ capacity = 0
    /\ last.op = "write" /\ last.len > 0
    /\ last.pre_waker = ReaderWaker
    /\ last.ret = "pending"

\* C11: flush and close are ready with success in every ring state, never
\* pending, and leave data, cursors and waker slot as they were; the stream
\* is not closed: every read and write poll behaves after them as before.
C11_FlushCloseNoOp ==
    [][last'.op \in {"flush", "close"} =>
          /\ last'.ret = "ready"
          /\ last'.signaled = <<>>
          /\ UNCHANGED <<data, read_idx, write_idx, waker, alive>>
          /\ \A len \in 0..MaxLen :
                /\ poll_read(ReaderWaker, len)' = poll_read(ReaderWaker, len)
                /\ poll_write(WriterWaker, Payload(len))' =
                      poll_write(WriterWaker, Payload(len))]_vars

\* A close polled on a full pipe of capacity >= 2 with the writer parked.
C11_Witness ==
    /\ capacity >= 2
    /\ last.op = "close"
    /\ Buffered = capacity
    /\ waker = WriterWaker

\* C12 (as claimed): a drop signals no waker and leaves the ring as it
\* was; once the reader is dropped while the writer is parked, every write
\* poll is pending and the writer's waker is never signaled; once the writer
\* is dropped, the reader still drains the buffered bytes, then every read
\* poll is pending, and no read ever reports an end of stream (ready with 0).
C12_EndpointDrop ==
    /\ last.op = "drop" =>
          /\ last.signaled = <<>>
          /\ data = last.pre_data
          /\ read_idx = last.pre_read_idx /\ write_idx = last.pre_write_idx
          /\ waker = last.pre_waker
    /\ ReaderWaker \in at_drop =>
          /\ waiting[WriterWaker]
          /\ last.op = "write" => last.ret = "pending"
    /\ WriterWaker \notin alive =>
          /\ last.op = "read" =>
                /\ ~(last.ret = "ready" /\ last.n = 0)
                /\ last.pre_read_idx = last.pre_write_idx =>
                      last.ret = "pending"
          /\ read_idx # write_idx =>
                /\ poll_read(ReaderWaker, 1).ret = "ready"
                /\ poll_read(ReaderWaker, 1).bytes =
                      <<accepted[Len(delivered) + 1]>>
          /\ read_idx = write_idx => delivered = accepted

\* C13: with capacity C >= 1, writeable() equals min(C - buffered,
\* C - (write_idx mod C)); a write given L bytes accepts exactly
\* n = min(L, C - buffered, C - (write_idx mod C)) of them, and when n > 0
\* stores them at positions (write_idx mod C) .. (write_idx mod C) + n - 1
\* and sets write_idx to (write_idx + n) mod 2C.
C13_ExactWriteCount ==
    capacity >= 1 =>
        /\ writeable =
              Min(capacity - Buffered, capacity - (write_idx % capacity))
        /\ last.op = "write" =>
              /\ last.n =
                    Min(last.len,
                        Min(capacity - PreBuffered,
                            capacity - (last.pre_write_idx % capacity)))
              /\ Len(last.bytes) = last.n
              /\ write_idx = (last.pre_write_idx + last.n) % (2 * capacity)
              /\ read_idx = last.pre_read_idx
              /\ \A i \in DOMAIN data :
                    LET k == i - (last.pre_write_idx % capacity)
                    IN  data[i] = IF 0 <= k /\ k < last.n
                                  THEN last.bytes[k + 1]
                                  ELSE last.pre_data[i]

\* A write into a ring whose write cursor is below its read cursor (the
\* branch of writeable() that adds 2C), cut short by the free space.
C13_Witness ==
    /\ capacity >= 3
    /\ last.op = "write" /\ Progressed
    /\ last.pre_write_idx < last.pre_read_idx
    /\ last.n = capacity - PreBuffered
    /\ last.n < last.len
    /\ last.n < capacity - (last.pre_write_idx % capacity)

\* C14: with capacity C >= 1, readable() is 0 when the cursors are equal,
\* else w - r if r < w and C - r otherwise (r, w the cursors mod C), which
\* is min(buffered, C - r); a read given a buffer of length L delivers
\* exactly n = min(L, readable) bytes, data[r .. r + n - 1], and sets
\* read_idx to (read_idx + n) mod 2C; wrap() is reduction modulo C on
\* every reachable cursor.
C14_ExactReadCount ==
    capacity >= 1 =>
        LET r == read_idx % capacity
            w == write_idx % capacity
            pr == last.pre_read_idx % capacity
            pw == last.pre_write_idx % capacity
            was == IF last.pre_read_idx = last.pre_write_idx THEN 0
                   ELSE IF pr < pw THEN pw - pr ELSE capacity - pr
        IN  /\ wrap(read_idx) = r /\ wrap(write_idx) = w
            /\ readable = IF read_idx = write_idx THEN 0
                          ELSE IF r < w THEN w - r ELSE capacity - r
            /\ readable = Min(Buffered, capacity - r)
            /\ last.op = "read" =>
                  /\ last.n = Min(last.len, was)
                  /\ last.bytes = [i \in 1..last.n |-> last.pre_data[pr + i - 1]]
                  /\ read_idx = (last.pre_read_idx + last.n) % (2 * capacity)
                  /\ write_idx = last.pre_write_idx
                  /\ data = last.pre_data

\* A read on a full ring whose live bytes cross the wrap point: it delivers
\* the C - r bytes up to the end of the store, fewer than asked for.
C14_Witness ==
    /\ capacity >= 3
    /\ last.op = "read" /\ Progressed
    /\ PreBuffered = capacity
    /\ last.pre_read_idx % capacity > 0
    /\ last.n = capacity - (last.pre_read_idx % capacity)
    /\ last.n < last.len

\* C15: a pending poll leaves data and both cursors as they were; a poll
\* ready with n has moved exactly n bytes and advanced exactly one cursor by
\* n, so the cursors always account for the bytes accepted and not yet
\* delivered; a waker leaves the slot only when a later park displaces it
\* or a later successful poll takes and signals it.
C15_AtomicPolls ==
    /\ (IsPoll /\ last.ret = "pending") =>
          /\ last.n = 0 /\ last.bytes = <<>>
          /\ data = last.pre_data
          /\ read_idx = last.pre_read_idx /\ write_idx = last.pre_write_idx
    /\ (last.op = "read" /\ last.ret = "ready") =>
          /\ Len(last.bytes) = last.n
          /\ read_idx = Mod(last.pre_read_idx + last.n, 2 * capacity)
          /\ write_idx = last.pre_write_idx
          /\ data = last.pre_data
    /\ (last.op = "write" /\ last.ret = "ready") =>
          /\ Len(last.bytes) = last.n
          /\ write_idx = Mod(last.pre_write_idx + last.n, 2 * capacity)
          /\ read_idx = last.pre_read_idx
          /\ Cardinality({i \in DOMAIN data : data[i] # last.pre_data[i]})
                = last.n
    /\ Buffered = InFlight
    /\ Len(model) = InFlight
    /\ waker # last.pre_waker =>
          \/ IsPoll /\ last.ret = "pending" /\ waker = Caller
          \/ /\ Progressed /\ waker = None
             /\ last.signaled = <<last.pre_waker>>

\* A write of two or more bytes that takes and signals the waker a pending
\* read had left in the slot.
C15_Witness ==
    /\ last.op = "write" /\ Progressed
    /\ last.pre_waker = ReaderWaker
    /\ waiting = [e \in Wakers |-> FALSE]
    /\ waker = None
    /\ last.n >= 2

\* The endpoint other than e.
Other(e) == IF e = ReaderWaker THEN WriterWaker ELSE ReaderWaker

\* C16: the slot holds at most one token; a pending poll stores the
\* caller's waker over any token already there, and the token it replaces
\* is not signaled; when the two endpoints report pending one after the
\* other, the second one's waker is in the slot, and an endpoint whose
\* waker was displaced is not signaled by any later operation (it stays
\* unsignaled until it polls again itself).
C16_LastParkWins ==
    [][/\ waker' \in Wakers \cup {None}
       /\ (IsPoll' /\ last'.ret = "pending") =>
             /\ waker' = Caller'
             /\ last'.signaled = <<>>
             /\ waiting'[Other(Caller')] = waiting[Other(Caller')]
       /\ (/\ IsPoll /\ last.ret = "pending"
           /\ IsPoll' /\ last'.ret = "pending"
           /\ Caller' # Caller) =>
             /\ waker' = Caller'
             /\ waiting'[Caller]
       /\ \A e \in Endpoints :
             (waiting[e] /\ waker # e) =>
                 \/ waiting'[e] /\ waker' # e
                 \/ IsPoll' /\ Caller' = e]_vars

\* On a pipe of capacity >= 1 the writer parks over the reader's parked
\* waker, and both endpoints are left waiting.
C16_Witness ==
    /\ capacity >= 1
    /\ last.op = "write" /\ last.ret = "pending"
    /\ last.pre_waker = ReaderWaker
    /\ waker = WriterWaker
    /\ waiting[ReaderWaker] /\ waiting[WriterWaker]

\* C17: with capacity >= 1 and every poll given a non-empty buffer, the
\* reader's waker is in the slot only while the ring is empty and the
\* writer's only while it is full; the two endpoints are never both parked,
\* a park never displaces the counterpart's unsignaled waker, a successful
\* read signals only the writer's waker and a successful write only the
\* reader's.
C17_OneSideParked ==
    capacity >= 1 =>
        /\ waker = ReaderWaker => read_idx = write_idx
        /\ waker = WriterWaker => Buffered = capacity
        /\ ~(waiting[ReaderWaker] /\ waiting[WriterWaker])
        /\ \A e \in Endpoints : waiting[e] => waker = e
        /\ (IsPoll /\ last.ret = "pending") =>
              last.pre_waker \in {None, Caller}
        /\ (last.op = "read" /\ Progressed) =>
              last.signaled \in {<<>>, <<WriterWaker>>}
        /\ (last.op = "write" /\ Progressed) =>
              last.signaled \in {<<>>, <<ReaderWaker>>}

\* A read that frees room in a full ring of capacity >= 2 and signals the
\* parked writer, every poll so far having had a non-empty buffer.
C17_Witness ==
    /\ capacity >= 2
    /\ last.op = "read" /\ Progressed /\ last.len > 0
    /\ last.signaled = <<WriterWaker>>
    /\ last.pre_read_idx >= capacity

\* C18: with capacity >= 1, a write with a non-empty buffer is pending only
\* if the ring is full and a read with a non-empty buffer only if it is
\* empty; otherwise at least one byte moves, and a 1-byte write on a
\* non-full ring and a 1-byte read on a non-empty ring move exactly one.
C18_NoFalsePending ==
    capacity >= 1 =>
        /\ (last.op = "write" /\ last.len > 0) =>
              /\ last.ret # "ready" => PreBuffered = capacity
              /\ PreBuffered < capacity => (last.ret = "ready" /\ last.n >= 1)
        /\ (last.op = "read" /\ last.len > 0) =>
              /\ last.ret # "ready" => last.pre_read_idx = last.pre_write_idx
              /\ last.pre_read_idx # last.pre_write_idx =>
                    (last.ret = "ready" /\ last.n >= 1)
        /\ Buffered < capacity =>
              /\ poll_write(WriterWaker, Payload(1)).ret = "ready"
              /\ poll_write(WriterWaker, Payload(1)).n = 1
        /\ read_idx # write_idx =>
              /\ poll_read(ReaderWaker, 1).ret = "ready"
              /\ poll_read(ReaderWaker, 1).n = 1

\* The 1-byte read of the seventh round of alternating 1-byte writes and
\* reads on a pipe of capacity 3: the read cursor wraps from 5 to 0.
C18_Witness ==
    /\ capacity = 3
    /\ last.op = "read" /\ last.len = 1 /\ last.n = 1
    /\ PreBuffered = 1
    /\ last.pre_read_idx = 5 /\ read_idx = 0
    /\ Len(delivered) > 2 * capacity

\* C19: with capacity C >= 1, after a read with a buffer of at least C
\* bytes on a non-empty ring, the ring is empty or one more such read
\* empties it, the two having delivered every byte that was buffered; after
\* a write of at least C bytes on a non-full ring, the ring is full or one
\* more such write fills it.  The first operation suffices exactly when the
\* live (resp. free) region does not cross the wrap point.
C19_BoundedDrainFill ==
    capacity >= 1 =>
        /\ (/\ last.op = "read" /\ last.len >= capacity
            /\ last.pre_read_idx # last.pre_write_idx) =>
              LET again == poll_read(ReaderWaker, capacity)
              IN  /\ (read_idx = write_idx) <=>
                        ((last.pre_read_idx % capacity) + PreBuffered
                            <= capacity)
                  /\ read_idx # write_idx =>
                        /\ again.ret = "ready"
                        /\ again.read_idx = write_idx
                        /\ last.n + again.n = PreBuffered
                  /\ read_idx = write_idx => last.n = PreBuffered
        /\ (/\ last.op = "write" /\ last.len >= capacity
            /\ PreBuffered < capacity) =>
              LET again == poll_write(WriterWaker, Payload(capacity))
              IN  /\ (Buffered = capacity) <=>
                        ((last.pre_write_idx % capacity)
                            + (capacity - PreBuffered) <= capacity)
                  /\ Buffered # capacity =>
                        /\ again.ret = "ready"
                        /\ Mod(again.write_idx - read_idx, 2 * capacity)
                              = capacity
                        /\ last.n + again.n = capacity - PreBuffered

\* A read with room for the whole ring that stops at the wrap point of a
\* ring of capacity >= 3, leaving two or more bytes for a second read.
C19_Witness ==
    /\ capacity >= 3
    /\ last.op = "read" /\ last.len >= capacity /\ Progressed
    /\ last.n < PreBuffered
    /\ Buffered >= 2
    /\ wrap(read_idx) = 0

=============================================================================
